---------------------------- MODULE Spec2Model ----------------------------
(***************************************************************************)
(* A model of the three components of the handwriting-recognition          *)
(* training code:                                                          *)
(*   - get_data (src/data_loader/data_loader.py): transform selection,     *)
(*     dataset selection, the train/validation index split, the optional   *)
(*     sample cap and the loaders it returns;                               *)
(*   - FixedHeightResize / FixedWidthPad (same file): the geometry of the  *)
(*     fixed-height mode;                                                   *)
(*   - SequenceCrossEntropyLoss                                             *)
(*     (src/models/loss/sequenceCrossEntropyLoss.py): construction and     *)
(*     forward.                                                             *)
(* Each component has its own specification (SpecData, SpecGeom,           *)
(* SpecLoss); the variables of the other two components stay at their      *)
(* initial values.                                                          *)
(***************************************************************************)
EXTENDS Integers, Sequences, FiniteSets

VARIABLES
    \* ---- get_data ----
    pc,               \* position inside get_data
    args,             \* the argparse namespace handed to get_data
    corpus_len,       \* len() of the dataset built from TRAIN_DIR / LABEL_FILE
    train_transform,  \* the composed training transform (stage names)
    test_transform,   \* the composed validation / test transform
    dataset,          \* the dataset class selected by args.model_name
    collate,          \* the collate function selected by args.model_name
    form_inds,        \* np.arange(0, 51000), shuffled in place
    wild_inds,        \* np.arange(51000, 99000), shuffled in place
    train_inds,
    val_inds,
    train_set,
    val_set,
    train_loader,
    val_loader,
    ret,              \* the tuple get_data returns (<<>> before the return)
    err,              \* the exception get_data raised ("" when none)
    \* ---- FixedHeightResize / FixedWidthPad ----
    gpc,              \* position inside the fixed-height pipeline
    raw,              \* img.size of the image handed to the pipeline, <<w, h>>
    img,              \* img.size of the current image, <<w, h>>
    target,           \* <<args.height, args.width>>
    pads,             \* <<pad, pad_left, pad_right>> computed by FixedWidthPad
    \* ---- SequenceCrossEntropyLoss ----
    lpc,              \* position in the life of the loss module
    flags,            \* constructor arguments sequence_normalize / sample_normalize
    shape,            \* input.size(0), input.size(1) and target.size(1)
    length,           \* length: one entry per batch row
    mask,             \* mask: batch rows of 0 / 1
    row,              \* rows of the flattened tensors already gathered
    acc,              \* torch.sum(output) over the rows gathered so far
    mask_sum,         \* torch.sum(mask) over the rows gathered so far
    full_sum,         \* history: cross-entropy of every row gathered, unmasked
    pad_sum,          \* history: what the rows at or beyond a true length added
    output            \* what forward returned

dvars == <<pc, args, corpus_len, train_transform, test_transform, dataset,
           collate, form_inds, wild_inds, train_inds, val_inds, train_set,
           val_set, train_loader, val_loader, ret, err>>
gvars == <<gpc, raw, img, target, pads>>
lvars == <<lpc, flags, shape, length, mask, row, acc, mask_sum, full_sum, pad_sum,
           output>>
vars == <<dvars, gvars, lvars>>

-----------------------------------------------------------------------------
(* Bounds.  The corpus of the program has 103000 samples (form 0..50999,   *)
(* wild 51000..98999, synthetic 99000..102999) with 5100 / 4800 indices    *)
(* reserved for validation; the model keeps the same layout on a corpus    *)
(* small enough to enumerate every shuffle.                                *)

\* end of the form range (51000 in the code)
FormEnd == 3
\* end of the wild range (99000 in the code)
WildEnd == 5
\* end of the synthetic range (103000 in the code)
GanEnd == 6
\* validation reservation of the form range (5100 in the code)
FormVal == 1
\* validation reservation of the wild range (4800 in the code)
WildVal == 1
\* largest args.num_samples tried
MaxSamples == 5
\* largest width and height of an input image
MaxImgSide == 4
\* largest args.height tried
MaxHeight == 3
\* largest args.width tried
MaxWidth == 4
\* largest batch size, input.size(0) = target.size(0)
MaxBatch == 2
\* largest input.size(1)
MaxSeq == 2
\* largest def_max_length, target.size(1)
MaxDef == 3

-----------------------------------------------------------------------------
(* Python / numpy helpers                                                  *)

\* the elements of a sequence, as a set
Elems(s) == {s[i] : i \in 1..Len(s)}

\* no element occurs twice
Distinct(s) == \A i, j \in 1..Len(s) : i # j => s[i] # s[j]

\* np.arange(a, b)
Arange(a, b) == [i \in 1..(IF b > a THEN b - a ELSE 0) |-> a + i - 1]

\* what np.random.shuffle(x) can leave in x, over all seeds: any permutation
Shuffles(x) ==
    {p \in [1..Len(x) -> Elems(x)] : \A i, j \in 1..Len(x) : i # j => p[i] # p[j]}

\* x[k:] for k >= 0
SliceFrom(x, k) == SubSeq(x, k + 1, Len(x))

\* x[:k] for k >= 0
SliceTo(x, k) == SubSeq(x, 1, IF k < Len(x) THEN k ELSE Len(x))

\* np.concatenate
Concat3(a, b, c) == a \o b \o c

\* np.random.choice(x, n, replace=False) for n <= len(x), over all seeds:
\* any arrangement of n distinct positions of x
Choices(x, n) ==
    {[i \in 1..n |-> x[q[i]]] :
        q \in {r \in [1..n -> 1..Len(x)] : \A i, j \in 1..n : i # j => r[i] # r[j]}}


-----------------------------------------------------------------------------
(* get_data: objects                                                       *)

\* None
NoneObj == [kind |-> "None", name |-> "None", indices |-> <<>>]

\* dataset(TRAIN_DIR, LABEL_FILE, name='train', ...): serves indices 0..len-1
Dataset(nm, len) == [kind |-> "Dataset", name |-> nm, indices |-> Arange(0, len)]

\* torch.utils.data.Subset(ds, inds): keeps the indices as given, unchecked
Subset(ds, inds) == [kind |-> "Subset", name |-> ds.name, indices |-> inds]

\* DataLoader(data, ..., collate_fn=c)
DataLoader(data, c) == [kind |-> "DataLoader", data |-> data, collate |-> c]

\* val_loader = None
NoLoader == [kind |-> "None", data |-> NoneObj, collate |-> "None"]

\* the values of args.resize tried: 1 selects the stretch mode, 0 the
\* fixed-height mode; 2 stands for a value that names no mode
ResizeValues == {0, 1, 2}

\* the values of args.model_name tried: the two CTC families, one of the
\* other families, and a name that is no family at all
ModelNames == {"crnn", "cnnctc", "attention", "no_such_model"}

\* the argparse namespaces tried
ArgsSet ==
    [train : BOOLEAN, num_samples : (-1)..MaxSamples, resize : ResizeValues,
     model_name : ModelNames, grayscale : BOOLEAN]

\* the corpus sizes tried: the full corpus, and one without the synthetic block
CorpusLens == {WildEnd, GanEnd}

\* gan_inds = np.arange(99000, 103000)
gan_inds == Arange(WildEnd, GanEnd)

\* tensor_normalize
tensor_normalize == <<"ToTensor", "Normalize">>

\* grayscale, then the augmentations list
augmentations(a) ==
    <<"GaussianBlur", "DefocusBlur", "ColorJitter", "JpegCompression",
      "RandomRotation",
      IF a.grayscale THEN "Grayscale" ELSE "RandomGrayscale">>

\* the geometric stages chosen by args.resize
GeometricStages(a) ==
    IF a.resize = 1 THEN <<"Resize">>
    ELSE <<"FixedHeightResize", "FixedWidthPad">>

\* train_transform
TrainTransform(a) == augmentations(a) \o GeometricStages(a) \o tensor_normalize

\* test_transform
TestTransform(a) ==
    (IF a.grayscale THEN <<"Grayscale">> ELSE <<>>)
        \o GeometricStages(a) \o tensor_normalize

\* the dataset class chosen by args.model_name
DatasetClass(a) ==
    IF a.model_name \in {"crnn", "cnnctc"} THEN "HandWritttenDataset"
    ELSE "HandWrittenDatasetV2"

\* the collate function chosen by args.model_name
CollateFn(a) ==
    IF a.model_name \in {"crnn", "cnnctc"} THEN "collate_fn_ctc"
    ELSE "collate_fn"

\* a split that starts the form training slice one index late
TrainIndsOffByOne(f, w) ==
    Concat3(SliceFrom(f, FormVal + 1), SliceFrom(w, WildVal), gan_inds)

\* train_inds = np.concatenate([form_inds[5100:], wild_inds[4800:], gan_inds])
TrainInds(f, w) ==
    Concat3(SliceFrom(f, FormVal), SliceFrom(w, WildVal), gan_inds)

\* a split that also puts the synthetic indices into validation
ValIndsWithGan(f, w) == SliceTo(f, FormVal) \o SliceTo(w, WildVal) \o gan_inds

\* val_inds = np.concatenate([form_inds[:5100], wild_inds[:4800]])
ValInds(f, w) == SliceTo(f, FormVal) \o SliceTo(w, WildVal)

\* np.random.choice(pool, n) with the default replace=True
SampleWithReplacement(pool, n) == [1..n -> Elems(pool)]

\* np.random.choice(pool, n, replace=False), n <= len(pool)
Sample(pool, n) == Choices(pool, n)

\* an empty validation subset in place of None
UseAllValSetEmpty == Subset(Dataset("val_dataset", 0), <<>>)

\* val_set = None, line 151
UseAllValSet == NoneObj

-----------------------------------------------------------------------------
(* get_data: the state machine                                             *)

GeomIdle ==
    /\ gpc = "idle"
    /\ raw = <<0, 0>>
    /\ img = <<0, 0>>
    /\ target = <<0, 0>>
    /\ pads = <<0, 0, 0>>

LossIdle ==
    /\ lpc = "idle"
    /\ flags = [sequence_normalize |-> FALSE, sample_normalize |-> FALSE]
    /\ shape = [batch |-> 0, seq |-> 0, def_max |-> 0]
    /\ length = <<>>
    /\ mask = <<>>
    /\ row = 0
    /\ acc = 0
    /\ mask_sum = 0
    /\ full_sum = 0
    /\ pad_sum = 0
    /\ output = [num |-> 0, den |-> 1]

DataIdle ==
    /\ pc = "idle"
    /\ args = [train |-> FALSE, num_samples |-> 0, resize |-> 1,
               model_name |-> "crnn", grayscale |-> FALSE]
    /\ corpus_len = 0
    /\ train_transform = <<>>
    /\ test_transform = <<>>
    /\ dataset = ""
    /\ collate = ""
    /\ form_inds = <<>>
    /\ wild_inds = <<>>
    /\ train_inds = <<>>
    /\ val_inds = <<>>
    /\ train_set = NoneObj
    /\ val_set = NoneObj
    /\ train_loader = NoLoader
    /\ val_loader = NoLoader
    /\ ret = <<>>
    /\ err = ""

\* get_data is called
InitData ==
    /\ pc = "transforms"
    /\ args \in ArgsSet
    /\ corpus_len \in CorpusLens
    /\ train_transform = <<>>
    /\ test_transform = <<>>
    /\ dataset = ""
    /\ collate = ""
    /\ form_inds = <<>>
    /\ wild_inds = <<>>
    /\ train_inds = <<>>
    /\ val_inds = <<>>
    /\ train_set = NoneObj
    /\ val_set = NoneObj
    /\ train_loader = NoLoader
    /\ val_loader = NoLoader
    /\ ret = <<>>
    /\ err = ""
    /\ GeomIdle
    /\ LossIdle

\* lines 39-103: the transforms; every value of args.resize is accepted
BuildTransforms ==
    /\ pc = "transforms"
    /\ train_transform' = TrainTransform(args)
    /\ test_transform' = TestTransform(args)
    /\ pc' = "datasets"
    /\ UNCHANGED <<args, corpus_len, dataset, collate, form_inds, wild_inds,
                   train_inds, val_inds, train_set, val_set, train_loader,
                   val_loader, ret, err>>
    /\ UNCHANGED <<gvars, lvars>>

\* lines 105-123: the dataset class; every value of args.model_name is accepted
SelectDataset ==
    /\ pc = "datasets"
    /\ dataset' = DatasetClass(args)
    /\ collate' = CollateFn(args)
    /\ pc' = IF args.train THEN "shuffle" ELSE "use_all"
    /\ UNCHANGED <<args, corpus_len, train_transform, test_transform, form_inds,
                   wild_inds, train_inds, val_inds, train_set, val_set,
                   train_loader, val_loader, ret, err>>
    /\ UNCHANGED <<gvars, lvars>>

\* lines 126-130: the ranges are fixed, whatever the corpus size
Shuffle ==
    /\ pc = "shuffle"
    /\ form_inds' \in Shuffles(Arange(0, FormEnd))
    /\ wild_inds' \in Shuffles(Arange(FormEnd, WildEnd))
    /\ pc' = "split"
    /\ UNCHANGED <<args, corpus_len, train_transform, test_transform, dataset,
                   collate, train_inds, val_inds, train_set, val_set,
                   train_loader, val_loader, ret, err>>
    /\ UNCHANGED <<gvars, lvars>>

\* lines 132-140
Split ==
    /\ pc = "split"
    /\ train_inds' = TrainInds(form_inds, wild_inds)
    /\ val_inds' = ValInds(form_inds, wild_inds)
    /\ pc' = "cap"
    /\ UNCHANGED <<args, corpus_len, train_transform, test_transform, dataset,
                   collate, form_inds, wild_inds, train_set, val_set,
                   train_loader, val_loader, ret, err>>
    /\ UNCHANGED <<gvars, lvars>>

\* lines 141-142: np.random.choice raises ValueError when asked for more
\* samples than the pool holds
Cap ==
    /\ pc = "cap"
    /\ IF args.num_samples > 0
       THEN IF args.num_samples <= Len(train_inds)
            THEN /\ train_inds' \in Sample(train_inds, args.num_samples)
                 /\ pc' = "subsets"
                 /\ err' = err
            ELSE /\ train_inds' = train_inds
                 /\ pc' = "raised"
                 /\ err' = "ValueError"
       ELSE /\ train_inds' = train_inds
            /\ pc' = "subsets"
            /\ err' = err
    /\ UNCHANGED <<args, corpus_len, train_transform, test_transform, dataset,
                   collate, form_inds, wild_inds, val_inds, train_set, val_set,
                   train_loader, val_loader, ret>>
    /\ UNCHANGED <<gvars, lvars>>

\* lines 144-145
Subsets ==
    /\ pc = "subsets"
    /\ train_set' = Subset(Dataset("train_dataset", corpus_len), train_inds)
    /\ val_set' = Subset(Dataset("val_dataset", corpus_len), val_inds)
    /\ pc' = "loaders"
    /\ UNCHANGED <<args, corpus_len, train_transform, test_transform, dataset,
                   collate, form_inds, wild_inds, train_inds, val_inds,
                   train_loader, val_loader, ret, err>>
    /\ UNCHANGED <<gvars, lvars>>

\* lines 146-151
UseAll ==
    /\ pc = "use_all"
    /\ IF args.num_samples > 0
       THEN IF args.num_samples <= corpus_len
            THEN /\ \E s \in Sample(Arange(0, corpus_len), args.num_samples) :
                       train_set' = Subset(Dataset("train_dataset", corpus_len), s)
                 /\ val_set' = UseAllValSet
                 /\ pc' = "loaders"
                 /\ err' = err
            ELSE /\ train_set' = Dataset("train_dataset", corpus_len)
                 /\ val_set' = val_set
                 /\ pc' = "raised"
                 /\ err' = "ValueError"
       ELSE /\ train_set' = Dataset("train_dataset", corpus_len)
            /\ val_set' = UseAllValSet
            /\ pc' = "loaders"
            /\ err' = err
    /\ UNCHANGED <<args, corpus_len, train_transform, test_transform, dataset,
                   collate, form_inds, wild_inds, train_inds, val_inds,
                   train_loader, val_loader, ret>>
    /\ UNCHANGED <<gvars, lvars>>

\* lines 153-168
Loaders ==
    /\ pc = "loaders"
    /\ train_loader' = DataLoader(train_set, collate)
    /\ val_loader' = IF args.train THEN DataLoader(val_set, collate) ELSE NoLoader
    /\ pc' = "return"
    /\ UNCHANGED <<args, corpus_len, train_transform, test_transform, dataset,
                   collate, form_inds, wild_inds, train_inds, val_inds, train_set,
                   val_set, ret, err>>
    /\ UNCHANGED <<gvars, lvars>>

\* line 170: the datasets are returned, not train_set / val_set (the size of
\* the public test set plays no part here and is left at 0)
Return ==
    /\ pc = "return"
    /\ ret' = <<train_loader, val_loader,
                DataLoader(Dataset("test_dataset", 0), "default_collate"),
                Dataset("train_dataset", corpus_len),
                Dataset("val_dataset", corpus_len),
                Dataset("test_dataset", 0)>>
    /\ pc' = "done"
    /\ UNCHANGED <<args, corpus_len, train_transform, test_transform, dataset,
                   collate, form_inds, wild_inds, train_inds, val_inds, train_set,
                   val_set, train_loader, val_loader, err>>
    /\ UNCHANGED <<gvars, lvars>>

NextData ==
    \/ BuildTransforms
    \/ SelectDataset
    \/ Shuffle
    \/ Split
    \/ Cap
    \/ Subsets
    \/ UseAll
    \/ Loaders
    \/ Return

SpecData == InitData /\ [][NextData]_vars

-----------------------------------------------------------------------------
(* get_data: properties                                                    *)

\* the split, the cap and the subsets are behind get_data
AfterCap == pc \in {"subsets", "loaders", "return", "done"}

\* the synthetic range of corpus indices
GanRange == WildEnd..(GanEnd - 1)

\* C1: with args.train set and no sample cap (num_samples <= 0), train_inds
\* and val_inds share no index and every corpus index 0..GanEnd-1 occurs in
\* exactly one of them, exactly once, whatever the shuffle.
C1_SplitPartitionsCorpus ==
    (args.train /\ args.num_samples <= 0 /\ AfterCap) =>
        /\ Elems(train_inds) \cap Elems(val_inds) = {}
        /\ Elems(train_inds) \cup Elems(val_inds) = 0..(GanEnd - 1)
        /\ Distinct(train_inds \o val_inds)

\* C1 happens: an uncapped training call returned after a shuffle that moved
\* the form indices
C1_Witness ==
    /\ pc = "done" /\ args.train /\ args.num_samples <= 0
    /\ form_inds # Arange(0, FormEnd)

\* C2: with args.train set, for every shuffle and every num_samples, val_inds
\* holds no index of the synthetic range: it is the first FormVal shuffled
\* form indices followed by the first WildVal shuffled wild indices, and
\* val_set is built on exactly those.
C2_NoSyntheticInValidation ==
    (args.train /\ pc \in {"cap", "raised", "subsets", "loaders", "return", "done"}) =>
        /\ Elems(val_inds) \cap GanRange = {}
        /\ Len(val_inds) = FormVal + WildVal
        /\ \A i \in 1..FormVal : val_inds[i] = form_inds[i]
        /\ \A i \in 1..WildVal : val_inds[FormVal + i] = wild_inds[i]
        /\ pc \in {"loaders", "return", "done"} => val_set.indices = val_inds

\* C2 happens: a capped training call returned with a validation subset
C2_Witness ==
    /\ pc = "done" /\ args.train /\ args.num_samples > 0
    /\ val_set.kind = "Subset" /\ Len(val_set.indices) > 0

\* C3: with args.train set and a cap 0 < N <= size of the uncapped training
\* pool, train_inds has exactly N elements, pairwise distinct, all of them
\* indices of the uncapped training pool, and none of them in val_inds.
C3_CapYieldsNDistinctTrainIndices ==
    (/\ args.train
     /\ args.num_samples > 0
     /\ args.num_samples <= Len(TrainInds(form_inds, wild_inds))
     /\ AfterCap) =>
        /\ Len(train_inds) = args.num_samples
        /\ Distinct(train_inds)
        /\ Elems(train_inds) \subseteq Elems(TrainInds(form_inds, wild_inds))
        /\ Elems(train_inds) \cap Elems(val_inds) = {}

\* C3 happens: a training call capped below the pool size returned
C3_Witness ==
    /\ pc = "done" /\ args.train
    /\ args.num_samples > 1
    /\ args.num_samples < Len(TrainInds(form_inds, wild_inds))
    /\ train_set.indices = train_inds

InvalidConfig ==
    \/ args.resize \notin {0, 1}
    \/ args.model_name = "no_such_model"
    \/ GanEnd > corpus_len
    \/ FormVal > FormEnd
    \/ WildVal > WildEnd - FormEnd

\* C10: get_data fails during setup, returning no loader, whenever the
\* configuration is invalid.
C10_InvalidConfigFails == InvalidConfig => (pc # "done" /\ ret = <<>>)

-----------------------------------------------------------------------------
(* FixedHeightResize, then FixedWidthPad (the fixed-height mode)           *)

\* the exact ceiling of a / b, for a >= 0 and b > 0
CeilDiv(a, b) == (a + b - 1) \div b

\* new_w = math.ceil(self.size / (float(h) / float(w))).  The two divisions
\* are rounded to doubles: where h divides size * w the quotient can round to
\* just above the integer size * w / h and the ceiling is then one more (size
\* 1, w 49, h 1 gives 50); elsewhere the result is the exact ceiling.
NewWidths(size, w, h) ==
    {CeilDiv(size * w, h)} \cup
        (IF (size * w) % h = 0 THEN {CeilDiv(size * w, h) + 1} ELSE {})

\* F.resize(img, (size, new_w)): the image is new_w wide and size high
FResize(size, new_w) == <<new_w, size>>

\* pad_left = pad // 2 (floor division, also for a negative pad)
PadLeft(pad) == pad \div 2

\* a right pad of half the pad, which loses one column of an odd pad
PadRightHalf(pad, pad_left) == pad \div 2

\* pad_right = pad - pad_left
PadRight(pad, pad_left) == pad - pad_left

\* F.pad(img, (left, top, right, bottom), 0, 'constant') on a PIL image:
\* ImageOps.expand makes a new image of width left + w + right and height
\* top + h + bottom and pastes img at (left, top); a negative border crops
FPad(im, left, top, right, bottom) == <<left + im[1] + right, top + im[2] + bottom>>

\* an image of some size enters the pipeline configured with some target
InitGeom ==
    /\ gpc = "resize"
    /\ raw \in (1..MaxImgSide) \X (1..MaxImgSide)
    /\ img = raw
    /\ target \in (1..MaxHeight) \X (1..MaxWidth)
    /\ pads = <<0, 0, 0>>
    /\ DataIdle
    /\ LossIdle

\* FixedHeightResize(args.height).__call__, lines 177-181
FixedHeightResize ==
    /\ gpc = "resize"
    /\ \E new_w \in NewWidths(target[1], img[1], img[2]) :
           img' = FResize(target[1], new_w)
    /\ gpc' = "pad"
    /\ UNCHANGED <<raw, target, pads>>
    /\ UNCHANGED <<dvars, lvars>>

\* FixedWidthPad(args.width).__call__, lines 189-194
FixedWidthPad ==
    /\ gpc = "pad"
    /\ LET pad == target[2] - img[1]
           pad_left == PadLeft(pad)
           pad_right == PadRight(pad, pad_left)
       IN  /\ pads' = <<pad, pad_left, pad_right>>
           /\ img' = FPad(img, pad_left, 0, pad_right, 0)
    /\ gpc' = "done"
    /\ UNCHANGED <<raw, target>>
    /\ UNCHANGED <<dvars, lvars>>

NextGeom ==
    \/ FixedHeightResize
    \/ FixedWidthPad

SpecGeom == InitGeom /\ [][NextGeom]_vars

\* C4: for every input size (w, h) with w, h >= 1 and every target height and
\* width, the image after FixedHeightResize is target_height high and
\* ceil(target_height / (h / w)) wide (one more where the rounded quotient
\* lands just above an integer), and after FixedWidthPad it is exactly
\* target_width wide and target_height high, with pad_left = pad // 2 and
\* pad_right = pad - pad_left; a resized image wider than the target is cropped.
C4_ResizeThenPadYieldsTargetSize ==
    /\ gpc \in {"pad", "done"} =>
          LET w == raw[1]
              h == raw[2]
              new_w == IF gpc = "pad" THEN img[1] ELSE target[2] - pads[1]
          IN  /\ new_w >= 1
              /\ new_w * h >= target[1] * w
              /\ (new_w - 1) * h <= target[1] * w
              /\ (target[1] * w) % h # 0 => (new_w - 1) * h < target[1] * w
    /\ gpc = "pad" => img[2] = target[1]
    /\ gpc = "done" =>
          /\ img = <<target[2], target[1]>>
          /\ 2 * pads[2] <= pads[1] /\ pads[1] <= 2 * pads[2] + 1
          /\ pads[2] + pads[3] = pads[1]

\* C4 happens: an image was resized and padded by an odd amount
C4_Witness ==
    /\ gpc = "done" /\ pads[1] > 0 /\ pads[1] % 2 = 1 /\ raw[1] # raw[2]

-----------------------------------------------------------------------------
(* SequenceCrossEntropyLoss                                                *)
(* A logit is the natural logarithm of a small integer weight, so that a   *)
(* softmax probability is a ratio of integers; logarithms are kept in      *)
(* thousandths.  forward reads every row of the flattened input and target *)
(* once, in the gather of line 56: the model draws each row as it is read. *)

\* the class indices of the input's last dimension
Classes == 0..1

\* the rows input can hold: one weight per class
LogitRows == [1..Cardinality(Classes) -> {1, 2}]

\* the values target can hold: the class indices and one index past them
TargetValues == Classes \cup {Cardinality(Classes)}

\* 1000 * ln(n), rounded, for n = 1..4
LnMilli == <<0, 693, 1099, 1386>>

\* the largest entry of a non-empty sequence: max(length)
MaxOf(s) == CHOOSE m \in Elems(s) : \A x \in Elems(s) : x <= m

\* the sum of the entries of a sequence of numbers
RECURSIVE SumSeq(_)
SumSeq(s) == IF s = <<>> THEN 0 ELSE Head(s) + SumSeq(Tail(s))

\* a constructor without the assert
AcceptsAnyFlags(f) == TRUE

\* the assert of __init__, line 31: (sequence_normalize and sample_normalize) == False
ConstructorAccepts(f) == (f.sequence_normalize /\ f.sample_normalize) = FALSE

\* the end of the slice [:l] of a dimension of size d: a negative l counts
\* from the end, and both ends are clamped to the dimension
SliceStop(l, d) ==
    IF l >= 0 THEN (IF l < d THEN l ELSE d)
    ELSE (IF d + l > 0 THEN d + l ELSE 0)

\* a mask that also covers the position at the length
MaskRowOneMore(l, d) == [t \in 1..d |-> IF t <= SliceStop(l + 1, d) THEN 1 ELSE 0]

\* mask[i, :length[i]].fill_(1) on a row of def_max_length zeros, line 43
MaskRow(l, d) == [t \in 1..d |-> IF t <= SliceStop(l, d) THEN 1 ELSE 0]

\* mask = mask[:, :max_length], line 50
TruncateRows(m, max_length) ==
    [i \in 1..Len(m) |-> SubSeq(m[i], 1, SliceStop(max_length, Len(m[i])))]

\* - F.log_softmax(input, dim=1).gather(1, target) on one row, lines 53 and 56
NegLogSoftmaxAt(x, c) == LnMilli[SumSeq(x)] - LnMilli[x[c + 1]]

\* a normalization that divides by the mask sum and by the batch size
NormalizeBoth(sum, msum, batch_size, f) == [num |-> sum, den |-> msum * batch_size]

\* lines 61-65: the sum, divided by torch.sum(mask) and by batch_size as the
\* flags say; the quotient is kept as numerator and denominator
Normalize(sum, msum, batch_size, f) ==
    LET o1 == IF f.sequence_normalize
              THEN [num |-> sum, den |-> msum]
              ELSE [num |-> sum, den |-> 1]
    IN  IF f.sample_normalize
        THEN [num |-> o1.num, den |-> o1.den * batch_size]
        ELSE o1

\* SequenceCrossEntropyLoss(sequence_normalize=.., sample_normalize=..) is
\* called, to be followed by forward(input, target, length)
InitLoss ==
    /\ lpc = "construct"
    /\ flags \in [sequence_normalize : BOOLEAN, sample_normalize : BOOLEAN]
    /\ shape \in [batch : 1..MaxBatch, seq : 1..MaxSeq, def_max : 1..MaxDef]
    /\ length \in [1..shape.batch -> (-1)..(shape.def_max + 1)]
    /\ mask = <<>>
    /\ row = 0
    /\ acc = 0
    /\ mask_sum = 0
    /\ full_sum = 0
    /\ pad_sum = 0
    /\ output = [num |-> 0, den |-> 1]
    /\ DataIdle
    /\ GeomIdle

\* __init__, lines 18-31
Construct ==
    /\ lpc = "construct"
    /\ lpc' = IF ConstructorAccepts(flags) THEN "mask" ELSE "init_failed"
    /\ UNCHANGED <<flags, shape, length, mask, row, acc, mask_sum, full_sum,
                   pad_sum, output>>
    /\ UNCHANGED <<dvars, gvars>>

\* forward, lines 39-44: the mask, one row per batch entry
BuildMask ==
    /\ lpc = "mask"
    /\ mask' = [i \in 1..shape.batch |-> MaskRow(length[i], shape.def_max)]
    /\ lpc' = "truncate"
    /\ UNCHANGED <<flags, shape, length, row, acc, mask_sum, full_sum, pad_sum,
                   output>>
    /\ UNCHANGED <<dvars, gvars>>

\* forward, lines 46-50: the assert, then target and mask cut to max_length
Truncate ==
    /\ lpc = "truncate"
    /\ IF MaxOf(length) = shape.seq
       THEN /\ mask' = TruncateRows(mask, MaxOf(length))
            /\ lpc' = "gather"
       ELSE /\ mask' = mask
            /\ lpc' = "assert_failed"
    /\ UNCHANGED <<flags, shape, length, row, acc, mask_sum, full_sum, pad_sum,
                   output>>
    /\ UNCHANGED <<dvars, gvars>>

\* the columns of the truncated mask and target
Cols == Len(mask[1])

\* the rows of the flattened mask and target
Rows == shape.batch * Cols

\* forward, lines 52-61, for one row of the flattened tensors: the row of
\* target.view(-1, 1) and mask.view(-1, 1) at the same offset; gather raises
\* on an index that is no class
GatherRow ==
    /\ lpc = "gather"
    /\ row < Rows
    /\ \E x \in LogitRows, c \in TargetValues :
          LET i == (row \div Cols) + 1
              t == row % Cols
              m == mask[i][t + 1]
          IN  IF c \in Classes
              THEN /\ acc' = acc + NegLogSoftmaxAt(x, c) * m
                   /\ mask_sum' = mask_sum + m
                   /\ full_sum' = full_sum + NegLogSoftmaxAt(x, c)
                   /\ pad_sum' = pad_sum +
                          (IF t >= length[i] THEN NegLogSoftmaxAt(x, c) * m ELSE 0)
                   /\ row' = row + 1
                   /\ lpc' = lpc
              ELSE /\ lpc' = "index_error"
                   /\ UNCHANGED <<acc, mask_sum, full_sum, pad_sum, row>>
    /\ UNCHANGED <<flags, shape, length, mask, output>>
    /\ UNCHANGED <<dvars, gvars>>

\* forward, lines 61-67
Finish ==
    /\ lpc = "gather"
    /\ row = Rows
    /\ output' = Normalize(acc, mask_sum, shape.batch, flags)
    /\ lpc' = "done"
    /\ UNCHANGED <<flags, shape, length, mask, row, acc, mask_sum, full_sum,
                   pad_sum>>
    /\ UNCHANGED <<dvars, gvars>>

NextLoss ==
    \/ Construct
    \/ BuildMask
    \/ Truncate
    \/ GatherRow
    \/ Finish

SpecLoss == InitLoss /\ [][NextLoss]_vars

\* every entry of length is a true length: a count of positions
LengthsAreCounts == \A i \in 1..shape.batch : length[i] >= 0

\* C5: for true lengths (counts, >= 0), every position at or beyond a row's
\* length has mask 0 and adds exactly zero to the summed loss, whatever logits
\* and whatever class index the target holds there; so a row of length 0 adds
\* nothing, and the loss returned is the sum over the positions below the
\* lengths.
C5_PaddingContributesZero ==
    LengthsAreCounts =>
        /\ pad_sum = 0
        /\ \A i \in 1..Len(mask) : \A t \in 1..Len(mask[i]) :
              t - 1 >= length[i] => mask[i][t] = 0
        /\ lpc = "done" => output.num = acc

\* C5 happens: forward returned for length = [2, 0], def_max_length = 3,
\* batch = 2, and the rows it masked had a cross-entropy of their own
C5_Witness ==
    /\ lpc = "done"
    /\ shape = [batch |-> 2, seq |-> 2, def_max |-> 3]
    /\ length = <<2, 0>>
    /\ acc > 0
    /\ full_sum > acc

\* every row's length is the input's sequence length, and target has at least
\* that many columns: the mask forward uses is all 1s
UniformMask ==
    /\ \A i \in 1..shape.batch : length[i] = shape.seq
    /\ shape.def_max >= shape.seq

InvalidLength ==
    \E i \in 1..shape.batch : length[i] < 0 \/ length[i] > shape.def_max

\* C7: a length vector with a negative entry or an entry greater than
\* def_max_length makes forward fail: it never returns a loss.
C7_InvalidLengthFails == InvalidLength => lpc # "done"

\* C8: a module whose flags are both True is never constructed, so forward
\* runs only with at most one flag set and divides the sum by the mask sum
\* (sequence_normalize), by the batch size (sample_normalize), or by nothing.
C8_AtMostOneNormalization ==
    /\ (flags.sequence_normalize /\ flags.sample_normalize) =>
          lpc \in {"construct", "init_failed"}
    /\ lpc = "done" =>
          output = IF flags.sequence_normalize THEN [num |-> acc, den |-> mask_sum]
                   ELSE IF flags.sample_normalize
                        THEN [num |-> acc, den |-> shape.batch]
                        ELSE [num |-> acc, den |-> 1]

\* C8 happens: a construction with both flags True failed
C8_Witness ==
    /\ lpc = "init_failed"
    /\ flags.sequence_normalize /\ flags.sample_normalize

=============================================================================
